---- MODULE Spec2Model ----
(***************************************************************************)
(* RAPT backend: the ATS analysis engine (services/analysis_engine.py) and *)
(* the HTTP handlers that store and analyse resumes (main.py).             *)
(*                                                                         *)
(* Text is a sequence of one-character strings, so that the regular        *)
(* expression matching, str.lower, str.split and str.capitalize of the     *)
(* source are computed character by character.                             *)
(***************************************************************************)
EXTENDS Integers, Sequences, FiniteSets

(***************************************************************************)
(* Characters                                                              *)
(***************************************************************************)
LowerLetters == <<"a","b","c","d","e","f","g","h","i","j","k","l","m",
                  "n","o","p","q","r","s","t","u","v","w","x","y","z">>
UpperLetters == <<"A","B","C","D","E","F","G","H","I","J","K","L","M",
                  "N","O","P","Q","R","S","T","U","V","W","X","Y","Z">>
Digits == {"0","1","2","3","4","5","6","7","8","9"}
Whitespace == {" ", "\n", "\t"}
Range(s) == {s[i] : i \in DOMAIN s}

UpperSet == Range(UpperLetters)
LowerSet == Range(LowerLetters)
\* the characters the regular expression class \w accepts
WordChars == LowerSet \cup UpperSet \cup Digits \cup {"_"}

ToLower == [c \in UpperSet |-> LowerLetters[CHOOSE i \in DOMAIN UpperLetters : UpperLetters[i] = c]]
ToUpper == [c \in LowerSet |-> UpperLetters[CHOOSE i \in DOMAIN LowerLetters : LowerLetters[i] = c]]
\* str.lower on one character
LowerChar(c) == IF c \in UpperSet THEN ToLower[c] ELSE c
\* str.upper on one character
UpperChar(c) == IF c \in LowerSet THEN ToUpper[c] ELSE c
\* str.lower
lower(s) == [i \in DOMAIN s |-> LowerChar(s[i])]
\* str.capitalize: first character upper-cased, the rest lower-cased
capitalize(s) == [i \in DOMAIN s |-> IF i = 1 THEN UpperChar(s[i]) ELSE LowerChar(s[i])]

(***************************************************************************)
(* 1. Configuration data                                                   *)
(***************************************************************************)
\* faulty variant: "sql" entered into the database group
SKILL_GROUPS_with_sql == <<
  [category |-> "programming",
   skills |-> << <<"p","y","t","h","o","n">>, <<"j","a","v","a">>, <<"c","+","+">>, <<"j","a","v","a","s","c","r","i","p","t">>, <<"g","o","l","a","n","g">>, <<"r","u","b","y">>, <<"t","y","p","e","s","c","r","i","p","t">> >>],
  [category |-> "frontend",
   skills |-> << <<"r","e","a","c","t">>, <<"h","t","m","l">>, <<"c","s","s">>, <<"t","a","i","l","w","i","n","d">>, <<"n","e","x","t","j","s">>, <<"v","u","e">> >>],
  [category |-> "backend",
   skills |-> << <<"f","a","s","t","a","p","i">>, <<"n","o","d","e">>, <<"d","j","a","n","g","o">>, <<"f","l","a","s","k">>, <<"s","p","r","i","n","g"," ","b","o","o","t">> >>],
  [category |-> "ml",
   skills |-> << <<"m","a","c","h","i","n","e"," ","l","e","a","r","n","i","n","g">>, <<"t","e","n","s","o","r","f","l","o","w">>, <<"p","y","t","o","r","c","h">>, <<"s","c","i","k","i","t","-","l","e","a","r","n">>, <<"n","l","p">> >>],
  [category |-> "database",
   skills |-> << <<"p","o","s","t","g","r","e","s","q","l">>, <<"m","y","s","q","l">>, <<"m","o","n","g","o","d","b">>, <<"s","u","p","a","b","a","s","e">>, <<"r","e","d","i","s">>, <<"o","r","a","c","l","e">>, <<"s","q","l">> >>] >>

SKILL_GROUPS == <<
  [category |-> "programming",
   skills |-> << <<"p","y","t","h","o","n">>, <<"j","a","v","a">>, <<"c","+","+">>, <<"j","a","v","a","s","c","r","i","p","t">>, <<"g","o","l","a","n","g">>, <<"r","u","b","y">>, <<"t","y","p","e","s","c","r","i","p","t">> >>],
  [category |-> "frontend",
   skills |-> << <<"r","e","a","c","t">>, <<"h","t","m","l">>, <<"c","s","s">>, <<"t","a","i","l","w","i","n","d">>, <<"n","e","x","t","j","s">>, <<"v","u","e">> >>],
  [category |-> "backend",
   skills |-> << <<"f","a","s","t","a","p","i">>, <<"n","o","d","e">>, <<"d","j","a","n","g","o">>, <<"f","l","a","s","k">>, <<"s","p","r","i","n","g"," ","b","o","o","t">> >>],
  [category |-> "ml",
   skills |-> << <<"m","a","c","h","i","n","e"," ","l","e","a","r","n","i","n","g">>, <<"t","e","n","s","o","r","f","l","o","w">>, <<"p","y","t","o","r","c","h">>, <<"s","c","i","k","i","t","-","l","e","a","r","n">>, <<"n","l","p">> >>],
  [category |-> "database",
   skills |-> << <<"p","o","s","t","g","r","e","s","q","l">>, <<"m","y","s","q","l">>, <<"m","o","n","g","o","d","b">>, <<"s","u","p","a","b","a","s","e">>, <<"r","e","d","i","s">>, <<"o","r","a","c","l","e">> >>] >>

SECTION_SYNONYMS == <<
  [section |-> <<"e","d","u","c","a","t","i","o","n">>,
   keywords |-> << <<"e","d","u","c","a","t","i","o","n">>, <<"a","c","a","d","e","m","i","c">>, <<"u","n","i","v","e","r","s","i","t","y">>, <<"s","c","h","o","o","l","i","n","g">>, <<"q","u","a","l","i","f","i","c","a","t","i","o","n","s">> >>],
  [section |-> <<"p","r","o","j","e","c","t","s">>,
   keywords |-> << <<"p","r","o","j","e","c","t","s">>, <<"p","e","r","s","o","n","a","l"," ","w","o","r","k">>, <<"p","o","r","t","f","o","l","i","o">>, <<"o","p","e","n"," ","s","o","u","r","c","e">> >>],
  [section |-> <<"e","x","p","e","r","i","e","n","c","e">>,
   keywords |-> << <<"e","x","p","e","r","i","e","n","c","e">>, <<"w","o","r","k"," ","h","i","s","t","o","r","y">>, <<"e","m","p","l","o","y","m","e","n","t">>, <<"i","n","t","e","r","n","s","h","i","p">>, <<"p","r","o","f","e","s","s","i","o","n","a","l"," ","b","a","c","k","g","r","o","u","n","d">> >>],
  [section |-> <<"s","k","i","l","l","s">>,
   keywords |-> << <<"s","k","i","l","l","s">>, <<"t","e","c","h","n","i","c","a","l"," ","s","t","a","c","k">>, <<"c","o","m","p","e","t","e","n","c","i","e","s">>, <<"t","o","o","l","s">>, <<"t","e","c","h","n","o","l","o","g","i","e","s">> >>] >>

CORE_INDUSTRY_SKILLS == << <<"p","y","t","h","o","n">>, <<"r","e","a","c","t">>, <<"s","q","l">>, <<"g","i","t">>, <<"a","w","s">>, <<"d","o","c","k","e","r">>, <<"a","p","i">> >>

\* the keys of SECTION_SYNONYMS, in dictionary order
SectionKeys == [i \in DOMAIN SECTION_SYNONYMS |-> SECTION_SYNONYMS[i].section]
\* the flattened keyword list of SKILL_GROUPS, in iteration order
RECURSIVE FlattenSkills(_)
FlattenSkills(i) ==
  IF i > Len(SKILL_GROUPS) THEN <<>>
  ELSE SKILL_GROUPS[i].skills \o FlattenSkills(i + 1)
AllSkills == FlattenSkills(1)

(***************************************************************************)
(* Regular expressions  \b<escaped keyword>\b                              *)
(***************************************************************************)
\* is position p of text (1-based) a \w character; outside the text: no
IsWordAt(text, p) == p >= 1 /\ p <= Len(text) /\ text[p] \in WordChars
\* \b between the characters p and p+1 of text
WordBoundary(text, p) == IsWordAt(text, p) # IsWordAt(text, p + 1)
\* the literal kw occurs in text at position i
LiteralAt(kw, text, i, ignorecase) ==
  \A j \in 1..Len(kw) :
     IF ignorecase THEN LowerChar(text[i + j - 1]) = LowerChar(kw[j])
                   ELSE text[i + j - 1] = kw[j]
\* re.search(rf"\b{re.escape(kw)}\b", text [, re.IGNORECASE]) is not None
re_search_word(kw, text, ignorecase) ==
  \E i \in 1..(Len(text) - Len(kw) + 1) :
     /\ WordBoundary(text, i - 1)
     /\ LiteralAt(kw, text, i, ignorecase)
     /\ WordBoundary(text, i + Len(kw) - 1)

(***************************************************************************)
(* 2. Section detection                                                    *)
(***************************************************************************)
\* the dictionary  section -> bool ; its key order is that of SectionKeys
detect_sections(text) ==
  LET lower_text == lower(text)
  IN [s \in Range(SectionKeys) |->
        LET e == CHOOSE i \in DOMAIN SECTION_SYNONYMS : SECTION_SYNONYMS[i].section = s
        IN \E k \in DOMAIN SECTION_SYNONYMS[e].keywords :
              re_search_word(SECTION_SYNONYMS[e].keywords[k], lower_text, FALSE)]

(***************************************************************************)
(* 3. Skill extraction                                                     *)
(***************************************************************************)
\* the set  found  built by the two loops of extract_skills
found_set(text) ==
  {lower(AllSkills[i]) : i \in {j \in DOMAIN AllSkills : re_search_word(AllSkills[j], text, TRUE)}}

\* list(found): the iteration order of a Python set of strings depends on the
\* per-process string hash seed; HashKey orders the keywords under a seed
HashModulus == 31
HashKey(seed, kw) ==
  ((CHOOSE i \in DOMAIN AllSkills : lower(AllSkills[i]) = kw) * (7 * seed - 6)) % HashModulus
RECURSIVE list_of_set(_, _)
list_of_set(seed, S) ==
  IF S = {} THEN <<>>
  ELSE LET first == CHOOSE x \in S : \A y \in S : HashKey(seed, x) <= HashKey(seed, y)
       IN <<first>> \o list_of_set(seed, S \ {first})

extract_skills(text, seed) == list_of_set(seed, found_set(text))

(***************************************************************************)
(* 4. Scoring                                                              *)
(***************************************************************************)
SECTIONSYNONYMS_SAFE == SECTION_SYNONYMS

\* Python's round() on a float that is a multiple of 0.5, given as twice its
\* value: exact halves go to the even neighbour
round_half_even(twice) ==
  IF twice % 2 = 0 THEN twice \div 2
  ELSE LET lo == (twice - 1) \div 2
       IN IF lo % 2 = 0 THEN lo ELSE lo + 1

min(a, b) == IF a <= b THEN a ELSE b

\* faulty variant: floor division, (present_sections // len(...)) * 30
structure_component_floor_div(sections) ==
  LET present_sections == Cardinality({s \in DOMAIN sections : sections[s]})
  IN (present_sections \div Len(SECTIONSYNONYMS_SAFE)) * 30 * 2

\* (present_sections / len(SECTIONSYNONYMS_SAFE())) * 30, a multiple of 7.5,
\* given as twice its value
structure_component_twice(sections) ==
  LET present_sections == Cardinality({s \in DOMAIN sections : sections[s]})
  IN (present_sections * 30 * 2) \div Len(SECTIONSYNONYMS_SAFE)

\* faulty variant: max in place of min
skill_component_max(skills) ==
  LET skill_count == Len(skills)
  IN IF skill_count > 0 THEN (IF skill_count * 5 >= 50 THEN skill_count * 5 ELSE 50) ELSE 0

\* faulty variant: the cap of 50 left out
skill_component_uncapped(skills) ==
  LET skill_count == Len(skills)
  IN IF skill_count > 0 THEN skill_count * 5 ELSE 0

skill_component(skills) ==
  LET skill_count == Len(skills)
  IN IF skill_count > 0 THEN min(skill_count * 5, 50) ELSE 0

\* faulty variant: a plain else in place of  elif word_count > 0
formatting_component_plain_else(word_count) ==
  IF 300 <= word_count /\ word_count <= 800 THEN 20 ELSE 10

formatting_component(word_count) ==
  IF 300 <= word_count /\ word_count <= 800 THEN 20
  ELSE IF word_count > 0 THEN 10
  ELSE 0

\* twice the float  score  before the final round()
raw_score_twice(sections, skills, word_count) ==
  structure_component_twice(sections)
    + 2 * skill_component(skills)
    + 2 * formatting_component(word_count)

calculate_weighted_score(sections, skills, word_count) ==
  round_half_even(raw_score_twice(sections, skills, word_count))

(***************************************************************************)
(* str.split() and str.join                                                *)
(***************************************************************************)
Indices(text) == [i \in 1..Len(text) |-> i]
\* raw_text.split(): the maximal runs of non-whitespace characters
split(text) ==
  LET IsStart(i) == text[i] \notin Whitespace /\ (i = 1 \/ text[i - 1] \in Whitespace)
      IsEnd(i) == text[i] \notin Whitespace /\ (i = Len(text) \/ text[i + 1] \in Whitespace)
      starts == SelectSeq(Indices(text), IsStart)
      ends == SelectSeq(Indices(text), IsEnd)
  IN [k \in 1..Len(starts) |-> SubSeq(text, starts[k], ends[k])]

\* sep.join(words[lo..hi])
RECURSIVE join_range(_, _, _, _)
join_range(sep, words, lo, hi) ==
  IF lo > hi THEN <<>>
  ELSE IF lo = hi THEN words[lo]
  ELSE LET mid == (lo + hi) \div 2
       IN join_range(sep, words, lo, mid) \o sep \o join_range(sep, words, mid + 1, hi)
join(sep, words) == join_range(sep, words, 1, Len(words))

\* words[:n]
take(words, n) == SubSeq(words, 1, min(n, Len(words)))

(***************************************************************************)
(* 5. Master analysis engine                                               *)
(***************************************************************************)
ATS_TIPS == << "Use standard fonts and avoid complex tables or graphics.",
               "Start bullet points with strong action verbs like 'Developed', 'Built', 'Designed'." >>
STRENGTH_EXCELLENT == "Excellent section structure and keyword density."
STRENGTH_GOOD == "Good start, but needs more specific technical keywords."

\* faulty variant: the section name not capitalised
missing_section_message_plain(section) ==
  <<"M","i","s","s","i","n","g"," ","'">> \o section \o <<"'"," ","s","e","c","t","i","o","n",".">>

\* f"Missing '{section.capitalize()}' section."
missing_section_message(section) ==
  <<"M","i","s","s","i","n","g"," ","'">> \o capitalize(section) \o <<"'"," ","s","e","c","t","i","o","n",".">>
\* f"Consider adding core skills: {', '.join(missing_skills[:3])}"
core_skills_message(missing_skills) ==
  <<"C","o","n","s","i","d","e","r"," ","a","d","d","i","n","g"," ","c","o","r","e"," ","s","k","i","l","l","s",":"," ">> \o join(<<","," ">>, take(missing_skills, 3))

\* faulty variant: the filter inverted,  if s in found_skills
missing_core_inverted(found_skills) ==
  LET detected(s) == s \in Range(found_skills)
  IN SelectSeq(CORE_INDUSTRY_SKILLS, detected)

\* [s for s in CORE_INDUSTRY_SKILLS if s not in found_skills]
missing_core(found_skills) ==
  LET absent(s) == s \notin Range(found_skills)
  IN SelectSeq(CORE_INDUSTRY_SKILLS, absent)

strengths_for(ats_score) ==
  IF ats_score >= 80 THEN <<STRENGTH_EXCELLENT>>
  ELSE IF ats_score >= 50 THEN <<STRENGTH_GOOD>>
  ELSE <<>>

\* the improvements list: one entry per absent section in dictionary order,
\* then the core skills entry
improvements_for(sections, missing_skills) ==
  LET absent(s) == ~sections[s]
      absent_sections == SelectSeq(SectionKeys, absent)
  IN [i \in DOMAIN absent_sections |-> missing_section_message(absent_sections[i])]
     \o (IF missing_skills # <<>> THEN <<core_skills_message(missing_skills)>> ELSE <<>>)

run_full_analysis(raw_text, seed) ==
  LET clean_text == join(<<" ">>, split(raw_text))
      word_count == Len(split(clean_text))
      sections == detect_sections(clean_text)
      found_skills == extract_skills(clean_text, seed)
      missing_skills == missing_core(found_skills)
      ats_score == calculate_weighted_score(sections, found_skills, word_count)
      present(s) == sections[s]
  IN [status |-> "success",
      score |-> ats_score,
      word_count |-> word_count,
      details |-> [sections_found |-> SelectSeq(SectionKeys, present),
                   skills_detected |-> found_skills,
                   missing_core_skills |-> missing_skills],
      feedback |-> [strengths |-> strengths_for(ats_score),
                    improvements |-> improvements_for(sections, missing_skills),
                    ats_tips |-> ATS_TIPS],
      engine_version |-> "2.1.0"]

(***************************************************************************)
(* 6. RAPT adapter                                                         *)
(***************************************************************************)
run_analysis_for_rapt(raw_text, seed) ==
  LET result == run_full_analysis(raw_text, seed)
  IN [score |-> result.score,
      skills |-> result.details.skills_detected,
      missing_skills |-> result.details.missing_core_skills,
      feedback_json |-> [feedback |-> result.feedback,
                         sections_found |-> result.details.sections_found,
                         word_count |-> result.word_count],
      model_version |-> result.engine_version]

(***************************************************************************)
(* State                                                                   *)
(***************************************************************************)
VARIABLES
  pc,          \* position of the call under study: "call", "done", "added"
  sections,    \* calculate_weighted_score: the section-presence dictionary
  skills,      \* calculate_weighted_score: the skill list
  word_count,  \* calculate_weighted_score: the word count
  score,       \* calculate_weighted_score: the value returned
  text,        \* extract_skills: the argument
  found,       \* extract_skills: the list returned
  raw_text,    \* run_full_analysis: the argument
  result,      \* run_full_analysis: the dictionary returned
  resumes,     \* main.py: the rows of the "resumes" table
  analysis,    \* main.py: the rows of the "analysis" table
  storage,     \* main.py: the paths in the "resumes" storage bucket
  next_id,     \* main.py: the next identifier uuid.uuid4() yields
  response,    \* main.py: the last HTTP response
  cause        \* what made the last request fail, "none" on success

engine_vars == <<sections, skills, word_count, score, text, found, raw_text, result>>
http_vars == <<resumes, analysis, storage, next_id, response, cause>>
vars == <<pc, engine_vars, http_vars>>

\* number of string hash seeds explored for the order of list(set)
MaxSeed == 2
Seeds == 1..MaxSeed

NoSections == [s \in Range(SectionKeys) |-> FALSE]
NoResult == run_full_analysis(<<>>, 1)

NoResponse == [status |-> 0, detail |-> "", body |-> [status |-> ""]]
HttpIdle ==
  /\ resumes = <<>> /\ analysis = <<>> /\ storage = {} /\ next_id = 1
  /\ response = NoResponse /\ cause = "none"

ScoreIdle == sections = NoSections /\ skills = <<>> /\ word_count = 0 /\ score = 0
ExtractIdle == text = <<>> /\ found = <<>>
EngineIdle == raw_text = <<>> /\ result = NoResult

(***************************************************************************)
(* calculate_weighted_score on bounded inputs                              *)
(***************************************************************************)
\* longest skill list drawn initially (a prefix of the taxonomy)
MaxInitSkills == 11
\* word counts 0..MaxSmallWords and within Margin of the two thresholds
MaxSmallWords == 2
Margin == 1
WordCounts == (0..MaxSmallWords) \cup ((300 - Margin)..(300 + Margin))
                \cup ((800 - Margin)..(800 + Margin))

InitScore ==
  /\ pc = "call"
  /\ sections \in [Range(SectionKeys) -> BOOLEAN]
  /\ skills \in {SubSeq(AllSkills, 1, n) : n \in 0..MaxInitSkills}
  /\ word_count \in WordCounts
  /\ score = 0
  /\ ExtractIdle /\ EngineIdle /\ HttpIdle

CalcScore ==
  /\ pc = "call"
  /\ score' = calculate_weighted_score(sections, skills, word_count)
  /\ pc' = "done"
  /\ UNCHANGED <<sections, skills, word_count, text, found, raw_text, result, http_vars>>

\* the same call again with one more detected skill
AddSkill(k) ==
  /\ pc = "done"
  /\ k \notin Range(skills)
  /\ skills' = Append(skills, k)
  /\ score' = calculate_weighted_score(sections, skills', word_count)
  /\ pc' = "added"
  /\ UNCHANGED <<sections, word_count, text, found, raw_text, result, http_vars>>

NextScore == CalcScore \/ \E k \in Range(AllSkills) : AddSkill(k)
SpecScore == InitScore /\ [][NextScore]_vars

(***************************************************************************)
(* extract_skills on bounded texts                                         *)
(***************************************************************************)
upper(s) == [i \in DOMAIN s |-> UpperChar(s[i])]
\* characters placed around a keyword: a separator, word characters, punctuation
ContextChars == {" ", "x", "_", "+", "-"}
MaxContext == 1
RECURSIVE SeqsUpTo(_, _)
SeqsUpTo(S, n) ==
  IF n = 0 THEN {<<>>}
  ELSE LET shorter == SeqsUpTo(S, n - 1)
       IN shorter \cup {Append(q, c) : q \in shorter, c \in S}
Contexts == SeqsUpTo(ContextChars, MaxContext)
KeywordSpellings == Range(AllSkills) \cup {upper(k) : k \in Range(AllSkills)}
ExtractTexts ==
  {l \o k \o r : l \in Contexts, k \in KeywordSpellings, r \in Contexts}
    \cup {k1 \o k2 : k1 \in Range(AllSkills), k2 \in Range(AllSkills)}
    \cup {k1 \o <<" ">> \o k2 : k1 \in Range(AllSkills), k2 \in Range(AllSkills)}
    \cup Contexts

InitExtract ==
  /\ pc = "call"
  /\ text \in ExtractTexts
  /\ found = <<>>
  /\ ScoreIdle /\ EngineIdle /\ HttpIdle

ExtractSkills(seed) ==
  /\ pc = "call"
  /\ found' = extract_skills(text, seed)
  /\ pc' = "done"
  /\ UNCHANGED <<sections, skills, word_count, score, text, raw_text, result, http_vars>>

NextExtract == \E seed \in Seeds : ExtractSkills(seed)
SpecExtract == InitExtract /\ [][NextExtract]_vars

(***************************************************************************)
(* run_full_analysis on bounded texts                                      *)
(***************************************************************************)
\* short texts: up to MaxPieces pieces, each joined to the next directly or
\* by a space
Pieces == { <<" ">>, <<"\n">>, <<"\t">>, <<",">>, <<"x">>,
            <<"P","y","t","h","o","n">>, <<"r","e","a","c","t">>, <<"c","+","+">>, <<"m","a","c","h","i","n","e"," ","l","e","a","r","n","i","n","g">>,
            <<"s","q","l">>, <<"g","i","t">>, <<"a","w","s">>, <<"d","o","c","k","e","r">>, <<"a","p","i">>,
            <<"E","d","u","c","a","t","i","o","n">>, <<"p","r","o","j","e","c","t","s">>, <<"w","o","r","k"," ","h","i","s","t","o","r","y">> }
Joints == { <<>>, <<" ">> }
MaxPieces == 2
RECURSIVE Concats(_)
Concats(n) ==
  IF n = 0 THEN {<<>>}
  ELSE LET shorter == Concats(n - 1)
       IN shorter \cup Pieces \cup {q \o j \o p : q \in shorter \ {<<>>}, j \in Joints, p \in Pieces}
ShortTexts == Concats(MaxPieces)

\* resume-like texts: a heading line per chosen section, a line of the first n
\* taxonomy skills, and a body of filler words
MaxResumeSkills == 11
FillerIdeal == 300
FillerLong == 801
HeadingLine(i, chosen) ==
  IF SectionKeys[i] \in chosen THEN capitalize(SectionKeys[i]) \o <<":", "\n">> ELSE <<>>
Filler(n) == [i \in 1..(2 * n) |-> IF i % 2 = 1 THEN "w" ELSE " "]
Resume(chosen, n, filler) ==
  HeadingLine(1, chosen) \o HeadingLine(2, chosen)
    \o HeadingLine(3, chosen) \o HeadingLine(4, chosen)
    \o join(<<",", " ">>, SubSeq(AllSkills, 1, n)) \o <<"\n">>
    \o Filler(filler)
\* every choice of sections without a body; with a body, the first m sections
SectionPrefixes == {{SectionKeys[i] : i \in 1..m} : m \in 0..Len(SectionKeys)}
ResumeTexts ==
  {Resume(chosen, n, 0) :
     chosen \in SUBSET Range(SectionKeys), n \in 0..MaxResumeSkills}
    \cup {Resume(chosen, n, filler) :
            chosen \in SectionPrefixes, n \in 0..MaxResumeSkills,
            filler \in {FillerIdeal, FillerLong}}

InitEngine ==
  /\ pc = "call"
  /\ raw_text \in ShortTexts \cup ResumeTexts
  /\ result = NoResult
  /\ ScoreIdle /\ ExtractIdle /\ HttpIdle

RunFullAnalysis(seed) ==
  /\ pc = "call"
  /\ result' = run_full_analysis(raw_text, seed)
  /\ pc' = "done"
  /\ UNCHANGED <<sections, skills, word_count, score, text, found, raw_text, http_vars>>

NextEngine == \E seed \in Seeds : RunFullAnalysis(seed)
SpecEngine == InitEngine /\ [][NextEngine]_vars

(***************************************************************************)
(* main.py: the HTTP handlers                                              *)
(***************************************************************************)
\* analyze_text: the inline analyser of main.py, its own skill table
BASIC_SKILL_GROUPS == <<
  [category |-> "programming", skills |-> << <<"p","y","t","h","o","n">>, <<"j","a","v","a">>, <<"c","+","+">>, <<"j","a","v","a","s","c","r","i","p","t">> >>],
  [category |-> "frontend", skills |-> << <<"r","e","a","c","t">>, <<"h","t","m","l">>, <<"c","s","s">> >>],
  [category |-> "backend", skills |-> << <<"f","a","s","t","a","p","i">>, <<"n","o","d","e">>, <<"d","j","a","n","g","o">> >>],
  [category |-> "ml", skills |-> << <<"m","a","c","h","i","n","e"," ","l","e","a","r","n","i","n","g">>, <<"t","e","n","s","o","r","f","l","o","w">>, <<"p","y","t","o","r","c","h">> >>] >>
RECURSIVE FlattenBasic(_)
FlattenBasic(i) ==
  IF i > Len(BASIC_SKILL_GROUPS) THEN <<>>
  ELSE BASIC_SKILL_GROUPS[i].skills \o FlattenBasic(i + 1)

\* skill in text
contains(kw, s) == \E i \in 1..(Len(s) - Len(kw) + 1) : LiteralAt(kw, s, i, FALSE)

\* returns found_skills, score
analyze_text(raw) ==
  LET lowered == lower(raw)
      hit(skill) == contains(skill, lowered)
      found_skills == SelectSeq(FlattenBasic(1), hit)
      base == 15 * Len(found_skills)
  IN [skills |-> found_skills,
      score |-> IF Len(found_skills) >= 5 THEN base + 20 ELSE base]

\* an uploaded file: fitz either opens it and yields its text, or raises
PdfTexts == { <<>>, <<"p","y","t","h","o","n">>, <<"j","a","v","a","s","c","r","i","p","t">>, <<"P","y","t","h","o","n",","," ","R","e","a","c","t">> }
Files == {[parseable |-> TRUE, text |-> t] : t \in PdfTexts}
           \cup {[parseable |-> FALSE, text |-> <<>>]}
extract_text_from_pdf(file_bytes) ==
  IF file_bytes.parseable THEN [raised |-> FALSE, text |-> file_bytes.text]
  ELSE [raised |-> TRUE, text |-> <<>>]

\* the bearer credential of a request
Credentials == {"absent", "invalid", "valid"}
USER_ID == "user-1"
\* HTTPBearer() rejects a request without a bearer credential before the
\* handler runs; the status it uses depends on the installed FastAPI
MissingCredentialStatuses == {401, 403}
\* get_current_user: the user identifier, or the status of the HTTPException
get_current_user(credentials, missing_status) ==
  IF credentials = "absent" THEN [ok |-> FALSE, status |-> missing_status, detail |-> "Not authenticated"]
  ELSE IF credentials = "invalid" THEN [ok |-> FALSE, status |-> 401, detail |-> "Invalid token"]
  ELSE [ok |-> TRUE, status |-> 200, detail |-> USER_ID]

Fail(status, detail) == [status |-> status, detail |-> detail, body |-> [status |-> "error"]]

MaxUploads == 2
MaxAnalyses == 2
ContentTypes == {"application/pdf", "text/plain"}

\* POST /upload-resume
upload_resume(credentials, missing_status, content_type, file, storage_ok, db_ok) ==
  LET user == get_current_user(credentials, missing_status)
      file_id == next_id
      file_path == <<file_id, ".pdf">>
      extracted == extract_text_from_pdf(file)
  IN
  /\ next_id <= MaxUploads
  /\ IF ~user.ok THEN
       /\ response' = Fail(user.status, user.detail)
       /\ cause' = IF credentials = "absent" THEN "no_credential" ELSE "bad_credential"
       /\ UNCHANGED <<resumes, analysis, storage, next_id>>
     ELSE IF content_type # "application/pdf" THEN
       /\ response' = Fail(400, "File must be a PDF")
       /\ cause' = "content_type"
       /\ UNCHANGED <<resumes, analysis, storage, next_id>>
     ELSE IF ~storage_ok THEN
       /\ response' = Fail(500, "storage error")
       /\ cause' = "storage"
       /\ next_id' = next_id + 1
       /\ UNCHANGED <<resumes, analysis, storage>>
     ELSE IF extracted.raised THEN
       /\ response' = Fail(500, "Failed to parse PDF")
       /\ cause' = "parse"
       /\ storage' = storage \cup {file_path}
       /\ next_id' = next_id + 1
       /\ UNCHANGED <<resumes, analysis>>
     ELSE IF ~db_ok THEN
       /\ response' = Fail(500, "database error")
       /\ cause' = "database"
       /\ storage' = storage \cup {file_path}
       /\ next_id' = next_id + 1
       /\ UNCHANGED <<resumes, analysis>>
     ELSE
       /\ storage' = storage \cup {file_path}
       /\ resumes' = Append(resumes, [id |-> file_id, user_id |-> user.detail,
                                      storage_path |-> file_path,
                                      file_name |-> "resume.pdf",
                                      raw_text |-> extracted.text])
       /\ response' = [status |-> 200, detail |-> "",
                       body |-> [status |-> "success", file_id |-> file_id,
                                 message |-> "Resume processed successfully"]]
       /\ cause' = "none"
       /\ next_id' = next_id + 1
       /\ UNCHANGED analysis
  /\ UNCHANGED <<pc, engine_vars>>

\* POST /analyze-resume/{resume_id}
analyze_resume(credentials, missing_status, resume_id, select_ok, insert_ok) ==
  LET user == get_current_user(credentials, missing_status)
      matches(row) == row.id = resume_id
      data == SelectSeq(resumes, matches)
      basic == analyze_text(data[1].raw_text)
  IN
  /\ Len(analysis) < MaxAnalyses
  /\ IF ~user.ok THEN
       /\ response' = Fail(user.status, user.detail)
       /\ cause' = IF credentials = "absent" THEN "no_credential" ELSE "bad_credential"
       /\ UNCHANGED analysis
     ELSE IF ~select_ok THEN
       /\ response' = Fail(500, "Internal Server Error")
       /\ cause' = "database"
       /\ UNCHANGED analysis
     ELSE IF data = <<>> THEN
       /\ response' = Fail(404, "Resume not found")
       /\ cause' = "not_found"
       /\ UNCHANGED analysis
     ELSE IF ~insert_ok THEN
       /\ response' = Fail(500, "Internal Server Error")
       /\ cause' = "database"
       /\ UNCHANGED analysis
     ELSE
       /\ analysis' = Append(analysis, [resume_id |-> resume_id,
                                        score |-> basic.score,
                                        skills |-> basic.skills,
                                        missing_skills |-> <<>>,
                                        feedback_json |-> [message |-> "Basic analysis complete"]])
       /\ response' = [status |-> 200, detail |-> "",
                       body |-> [status |-> "analysis complete",
                                 score |-> basic.score, skills |-> basic.skills]]
       /\ cause' = "none"
  /\ UNCHANGED <<pc, engine_vars, resumes, storage, next_id>>

InitHttp == pc = "idle" /\ ScoreIdle /\ ExtractIdle /\ EngineIdle /\ HttpIdle

NextHttp ==
  \/ \E c \in Credentials, m \in MissingCredentialStatuses, t \in ContentTypes,
        f \in Files, so \in BOOLEAN, do \in BOOLEAN :
        upload_resume(c, m, t, f, so, do)
  \/ \E c \in Credentials, m \in MissingCredentialStatuses, id \in 1..(MaxUploads + 1),
        so \in BOOLEAN, io \in BOOLEAN :
        analyze_resume(c, m, id, so, io)
SpecHttp == InitHttp /\ [][NextHttp]_vars

(***************************************************************************)
(* Properties of calculate_weighted_score (SpecScore)                      *)
(***************************************************************************)
Scored == pc \in {"done", "added"}
PresentCount == Cardinality({s \in DOMAIN sections : sections[s]})
StatedFormatting == IF 300 <= word_count /\ word_count <= 800 THEN 20
                    ELSE IF word_count > 0 THEN 10 ELSE 0
StatedSkill(n) == IF 5 * n < 50 THEN 5 * n ELSE 50
\* four times the stated raw score (present/4)*30 + min(5n, 50) + formatting
StatedRawTimes4 == PresentCount * 30 + 4 * StatedSkill(Len(skills)) + 4 * StatedFormatting

\* C1: the score returned is an integer nearest to the stated raw score, that
\* is, it differs from raw by at most one half; on an integer raw it is raw.
ThmC1 ==
  Scored => /\ 4 * score - StatedRawTimes4 <= 2
            /\ StatedRawTimes4 - 4 * score <= 2
\* a half-integer raw score (one or three sections present) has been rounded
WitC1 == pc = "done" /\ PresentCount \in {1, 3} /\ word_count >= 300 /\ skills # <<>>

\* C5 as stated: some combination scores above 100.  Every component grows
\* with its input, so the claim holds exactly if the combination with every
\* section present, ten or more skills and an ideal length scores above 100.
OrigC5 ==
  (pc = "done" /\ PresentCount = Len(SectionKeys) /\ Len(skills) >= 10
     /\ 300 <= word_count /\ word_count <= 800)
    => score > 100
\* C5 amended: no score exceeds 100, and 100 is what the combination of every
\* section, ten or more skills and 300..800 words scores.
ThmC5 ==
  Scored => /\ score <= 100
            /\ (PresentCount = Len(SectionKeys) /\ Len(skills) >= 10
                  /\ 300 <= word_count /\ word_count <= 800) => score = 100
WitC5 == pc = "done" /\ score = 100 /\ Len(skills) > 10

\* C7: scoring again with one more skill never lowers the score, and the
\* skill component grows by 5 up to the cap of 50 and then stays at 50.
ThmC7 ==
  [][(pc = "done" /\ pc' = "added")
       => /\ score' >= score
          /\ Len(skills') = Len(skills) + 1
          /\ skill_component(skills') = min(skill_component(skills) + 5, 50)
          /\ (Len(skills) >= 10 => skill_component(skills') = 50)]_vars
\* a skill was added to a list already at the cap
WitC7 == pc = "added" /\ Len(skills) > 10 /\ score > 50

(***************************************************************************)
(* Properties of extract_skills (SpecExtract)                              *)
(***************************************************************************)
\* an occurrence of kw in s, ignoring case, with a non-word character or the
\* end of the text on each side
BoundedOccurrence(kw, s) ==
  \E i \in 1..(Len(s) - Len(kw) + 1) :
     /\ \A j \in 1..Len(kw) : LowerChar(s[i + j - 1]) = LowerChar(kw[j])
     /\ (i = 1 \/ s[i - 1] \notin WordChars)
     /\ (i + Len(kw) - 1 = Len(s) \/ s[i + Len(kw)] \notin WordChars)

\* C2: a taxonomy keyword is reported exactly if the text has an occurrence
\* of it bounded on both sides by a non-word character or the text's ends.
OrigC2 ==
  pc = "done" =>
    \A i \in DOMAIN AllSkills :
       (lower(AllSkills[i]) \in Range(found)) <=> BoundedOccurrence(AllSkills[i], text)

(***************************************************************************)
(* Properties of run_full_analysis (SpecEngine)                            *)
(***************************************************************************)
CorePosition(s) == CHOOSE i \in DOMAIN CORE_INDUSTRY_SKILLS : CORE_INDUSTRY_SKILLS[i] = s
NoDuplicates(q) == \A i, j \in DOMAIN q : i # j => q[i] # q[j]

\* C3: skills_detected has no duplicates and only taxonomy keywords,
\* sections_found only section keys, and missing_core_skills is the core
\* list without the detected skills, in the core list's order.
ThmC3 ==
  pc = "done" =>
    LET d == result.details IN
    /\ NoDuplicates(d.skills_detected)
    /\ Range(d.skills_detected) \subseteq Range(AllSkills)
    /\ Range(d.sections_found) \subseteq Range(SectionKeys)
    /\ Range(d.missing_core_skills) = Range(CORE_INDUSTRY_SKILLS) \ Range(d.skills_detected)
    /\ \A i, j \in DOMAIN d.missing_core_skills :
          i < j => CorePosition(d.missing_core_skills[i]) < CorePosition(d.missing_core_skills[j])
    /\ Range(d.missing_core_skills) \cap Range(d.skills_detected) = {}
\* a core skill was detected and removed from the missing list
WitC3 ==
  /\ pc = "done"
  /\ Len(result.details.skills_detected) >= 2
  /\ Len(result.details.missing_core_skills) < Len(CORE_INDUSTRY_SKILLS)
  /\ result.details.sections_found # <<>>

StatedMissingMessage ==
  [s \in Range(SectionKeys) |->
     IF s = <<"e","d","u","c","a","t","i","o","n">> THEN <<"M","i","s","s","i","n","g"," ","'","E","d","u","c","a","t","i","o","n","'"," ","s","e","c","t","i","o","n",".">>
     ELSE IF s = <<"p","r","o","j","e","c","t","s">> THEN <<"M","i","s","s","i","n","g"," ","'","P","r","o","j","e","c","t","s","'"," ","s","e","c","t","i","o","n",".">>
     ELSE IF s = <<"e","x","p","e","r","i","e","n","c","e">> THEN <<"M","i","s","s","i","n","g"," ","'","E","x","p","e","r","i","e","n","c","e","'"," ","s","e","c","t","i","o","n",".">>
     ELSE <<"M","i","s","s","i","n","g"," ","'","S","k","i","l","l","s","'"," ","s","e","c","t","i","o","n",".">>]
StatedCoreMessage(m) ==
  <<"C","o","n","s","i","d","e","r"," ","a","d","d","i","n","g"," ","c","o","r","e"," ","s","k","i","l","l","s",":"," ">> \o
    (IF Len(m) = 1 THEN m[1]
     ELSE IF Len(m) = 2 THEN m[1] \o <<",", " ">> \o m[2]
     ELSE m[1] \o <<",", " ">> \o m[2] \o <<",", " ">> \o m[3])
StatedOrder == << <<"e","d","u","c","a","t","i","o","n">>, <<"p","r","o","j","e","c","t","s">>, <<"e","x","p","e","r","i","e","n","c","e">>, <<"s","k","i","l","l","s">> >>

\* C4: strengths, improvements and ats_tips follow the rule table.
ThmC4 ==
  pc = "done" =>
    LET f == result.feedback
        m == result.details.missing_core_skills
        absent(s) == s \notin Range(result.details.sections_found)
        absent_sections == SelectSeq(StatedOrder, absent)
    IN
    /\ result.score >= 80 => f.strengths = <<"Excellent section structure and keyword density.">>
    /\ (result.score >= 50 /\ result.score < 80)
         => f.strengths = <<"Good start, but needs more specific technical keywords.">>
    /\ result.score < 50 => f.strengths = <<>>
    /\ f.improvements =
         [i \in DOMAIN absent_sections |-> StatedMissingMessage[absent_sections[i]]]
           \o (IF m # <<>> THEN <<StatedCoreMessage(m)>> ELSE <<>>)
    /\ f.ats_tips = << "Use standard fonts and avoid complex tables or graphics.",
                       "Start bullet points with strong action verbs like 'Developed', 'Built', 'Designed'." >>
\* a result with a strength, two missing-section entries and the core entry
WitC4 ==
  /\ pc = "done"
  /\ result.score >= 50
  /\ Len(result.feedback.strengths) = 1
  /\ Len(result.feedback.improvements) = 3

OnlyWhitespace(s) == \A i \in DOMAIN s : s[i] \in Whitespace

\* C6: every analysis succeeds with a score of at least 0, and an empty or
\* whitespace-only text has no words, skills or sections and scores 0.
ThmC6 ==
  pc = "done" =>
    /\ result.status = "success"
    /\ result.score >= 0
    /\ OnlyWhitespace(raw_text) =>
         /\ result.word_count = 0
         /\ result.details.skills_detected = <<>>
         /\ result.details.sections_found = <<>>
         /\ result.score = 0
\* a whitespace-only text that is not the empty text has been analysed
WitC6 == pc = "done" /\ raw_text # <<>> /\ OnlyWhitespace(raw_text)

NeverDetected == << <<"s","q","l">>, <<"g","i","t">>, <<"a","w","s">>, <<"d","o","c","k","e","r">>, <<"a","p","i">> >>
IsPrefix(p, q) == Len(p) <= Len(q) /\ SubSeq(q, 1, Len(p)) = p

\* C10: sql, git, aws, docker and api are always missing, in that order, so
\* improvements is never empty and ends with the core-skills suggestion.
ThmC10 ==
  pc = "done" =>
    LET m == result.details.missing_core_skills
        imp == result.feedback.improvements
        never(s) == s \in Range(NeverDetected)
    IN
    /\ SelectSeq(m, never) = NeverDetected
    /\ m # <<>>
    /\ imp # <<>>
    /\ IsPrefix(<<"C","o","n","s","i","d","e","r"," ","a","d","d","i","n","g"," ","c","o","r","e"," ","s","k","i","l","l","s",":"," ">>, imp[Len(imp)])
\* a text with the word sql was analysed, and python or react was detected
WitC10 ==
  /\ pc = "done"
  /\ re_search_word(<<"s","q","l">>, raw_text, TRUE)
  /\ Len(result.details.missing_core_skills) < Len(CORE_INDUSTRY_SKILLS)

(***************************************************************************)
(* Properties of the HTTP handlers (SpecHttp)                              *)
(***************************************************************************)
StoredText(resume_id) ==
  resumes[CHOOSE i \in DOMAIN resumes : resumes[i].id = resume_id].raw_text

\* C8: every persisted analysis row carries the score, skills and
\* missing_skills that the engine adapter yields for the stored raw_text.
OrigC8 ==
  \A i \in DOMAIN analysis :
     \E seed \in Seeds :
        LET e == run_analysis_for_rapt(StoredText(analysis[i].resume_id), seed)
        IN /\ analysis[i].score = e.score
           /\ analysis[i].skills = e.skills
           /\ analysis[i].missing_skills = e.missing_skills

\* the failure category a cause belongs to
Category(c) ==
  IF c \in {"no_credential", "bad_credential"} THEN "auth"
  ELSE IF c \in {"storage", "database"} THEN "other"
  ELSE c
\* C9: a parse failure, a missing record and a credential failure each have a
\* status different from each other's and from that of any other failure.
OrigC9 ==
  [][(/\ cause # "none" /\ cause' # "none"
      /\ Category(cause) # Category(cause')
      /\ {Category(cause), Category(cause')} \cap {"parse", "not_found", "auth"} # {})
       => response'.status # response.status]_vars

====
